---- MODULE Spec2Model ----
(***************************************************************************)
(* Model of utilities.py: the CelestialBody entity (constructor, the two   *)
(* mutators, the derived properties) and the formulas that walk the        *)
(* hosting_body links.                                                     *)
(*                                                                         *)
(* A Python object is an index into the sequence `bodies`; a reference to  *)
(* an object is <<index>> and Python's None is <<>>.  Floating-point       *)
(* results are kept exact: a result is a tuple of integers naming the      *)
(* rational power of the quantity that the formula produces (see each      *)
(* operator), with G and pi as units.                                      *)
(***************************************************************************)
EXTENDS Integers, Sequences, FiniteSets, TLC

\* bodies:  the CelestialBody objects constructed so far, in order of construction.
\* written: for each body, the value last assigned to its attribute `a`
\*          (by __init__ or update_semi_major_axis_a); history, read by no operation.
\* outcome: the last call made and what it ended in.
VARIABLES bodies, written, outcome

vars == <<bodies, written, outcome>>

(* ------------------------------ bounds -------------------------------- *)

\* Largest number of bodies constructed in SpecBuild (construction and pure reads).
MaxChain == 5
\* Largest number of bodies constructed in SpecAxis (semi-major-axis updates).
MaxBodies == 3
\* Largest number of bodies constructed in Spec (every operation).
MaxFrameBodies == 2
\* Largest hierarchy_number argument handed to the constructor.
MaxHn == 5

(* --------------------------- input domains ---------------------------- *)

None == <<>>
Ref(x) == <<x>>

\* hierarchy_number arguments: the documented 1..4 and one value on either side.
HnArgs == 0 .. MaxHn
\* Values handed to update_semi_major_axis_a (positive reals in the code's use).
Axes == {1, 2}
\* Values handed to update_spin_frequency_omega.
Omegas == {0, 1}
\* semi_major_axis arguments of the constructor (None is added for a star).
ConstructorAxes == {1}
\* Constructor arguments that depend on the level being built: heavier bodies
\* are higher in the hierarchy, so that host and hosted masses differ.
MassArg(hierarchy_number) == MaxHn + 2 - hierarchy_number
NameArg(hierarchy_number) ==
    CASE hierarchy_number = 1 -> "star"
      [] hierarchy_number = 2 -> "planet"
      [] hierarchy_number = 3 -> "moon"
      [] hierarchy_number = 4 -> "submoon"
      [] OTHER -> "body"
IndexArg(hierarchy_number) ==
    CASE hierarchy_number = 1 -> "s"
      [] hierarchy_number = 2 -> "p"
      [] hierarchy_number = 3 -> "m"
      [] hierarchy_number = 4 -> "sm"
      [] OTHER -> "b"

Abs(x) == IF x < 0 THEN -x ELSE x

(* ------------------------------ results ------------------------------- *)

\* What a call ends in: a normal return of `value`, or a raised exception. A
\* ValueError is named with the source line of its raise statement, so that the
\* errors of different checks stay apart.
\* `warned` tells whether warnings.warn was called on the way.
Return(value) == [status |-> "return", value |-> value, warned |-> FALSE]
Raise(error) == [status |-> "raise", value |-> <<error>>, warned |-> FALSE]
Warned(res) == [res EXCEPT !.warned = TRUE]

\* The last call made: which operation, on which body (0: none), with which
\* further arguments, and what it ended in.
Outcome(op, target, args, res) ==
    [op |-> op, target |-> target, args |-> args,
     status |-> res.status, value |-> res.value, warned |-> res.warned]

(* ------------------------ check_if_direct_orbits ---------------------- *)

\* Fault variant: the test of line 23 left out.
check_if_direct_orbits_no_star_test(bs, hosting_body, hosted_hn) ==
    IF hosting_body = None THEN Raise("AttributeError")
    ELSE LET distance == Abs(hosted_hn - bs[hosting_body[1]].hn)
         IN IF distance # 1 THEN Raise("ValueError@27") ELSE Return(None)

\* Fault variant: the difference taken without np.abs.
check_if_direct_orbits_no_abs(bs, hosting_body, hosted_hn) ==
    IF hosted_hn = 1 THEN Raise("ValueError@24")
    ELSE IF hosting_body = None THEN Raise("AttributeError")
    ELSE LET distance == hosted_hn - bs[hosting_body[1]].hn
         IN IF distance # 1 THEN Raise("ValueError@27") ELSE Return(None)

\* hosting_body is a reference (None or <<index>>) into bs; of hosted_body only
\* its hierarchy number is read (inside __init__ the new body is not in bs yet).
check_if_direct_orbits(bs, hosting_body, hosted_hn) ==
    IF hosted_hn = 1 THEN Raise("ValueError@24")
    ELSE IF hosting_body = None THEN Raise("AttributeError")
    ELSE LET distance == Abs(hosted_hn - bs[hosting_body[1]].hn)
         IN IF distance # 1 THEN Raise("ValueError@27") ELSE Return(None)

(* ------------------------ CelestialBody.__init__ ---------------------- *)

\* Fault variant: the host is stored without check_if_direct_orbits being called.
CelestialBody_init_unchecked(bs, mass, density, semi_major_axis, spin_frequency, love_number, quality_factor, descriptive_index, name, hierarchy_number, hosting_body) ==
    LET self == [mass |-> mass, rho |-> density, omega |-> spin_frequency,
                 k |-> love_number, Q |-> quality_factor,
                 descriptive_index |-> descriptive_index, name |-> name,
                 hn |-> hierarchy_number, hosting_body |-> None, a |-> None]
    IN IF hierarchy_number = 1
       THEN Return(<<self>>)
       ELSE Return(<<[self EXCEPT !.a = semi_major_axis,
                                  !.hosting_body = hosting_body]>>)

\* Fault variant: the ValueError of the check is swallowed and the body is kept,
\* without a host.
CelestialBody_init_swallows_error(bs, mass, density, semi_major_axis, spin_frequency, love_number, quality_factor, descriptive_index, name, hierarchy_number, hosting_body) ==
    LET self == [mass |-> mass, rho |-> density, omega |-> spin_frequency,
                 k |-> love_number, Q |-> quality_factor,
                 descriptive_index |-> descriptive_index, name |-> name,
                 hn |-> hierarchy_number, hosting_body |-> None, a |-> None]
    IN IF hierarchy_number = 1
       THEN Return(<<self>>)
       ELSE LET chk == check_if_direct_orbits(bs, hosting_body, hierarchy_number)
            IN IF chk.status = "raise"
               THEN IF chk.value[1] \in {"ValueError@24", "ValueError@27"}
                    THEN Return(<<[self EXCEPT !.a = semi_major_axis]>>)
                    ELSE chk
               ELSE Return(<<[self EXCEPT !.a = semi_major_axis,
                                          !.hosting_body = hosting_body]>>)

\* The object __init__ leaves behind when it returns, or the exception it raises.
\* inertial_moment is accepted by the constructor and stored nowhere.
CelestialBody_init(bs, mass, density, semi_major_axis, spin_frequency, love_number, quality_factor, descriptive_index, name, hierarchy_number, hosting_body) ==
    LET self == [mass |-> mass, rho |-> density, omega |-> spin_frequency,
                 k |-> love_number, Q |-> quality_factor,
                 descriptive_index |-> descriptive_index, name |-> name,
                 hn |-> hierarchy_number, hosting_body |-> None, a |-> None]
    IN IF hierarchy_number = 1
       THEN Return(<<self>>)
       ELSE LET chk == check_if_direct_orbits(bs, hosting_body, hierarchy_number)
            IN IF chk.status = "raise"
               THEN IF chk.value[1] \in {"ValueError@24", "ValueError@27"}
                    THEN Raise("ValueError@329")
                    ELSE chk
               ELSE Return(<<[self EXCEPT !.a = semi_major_axis,
                                          !.hosting_body = hosting_body]>>)

(* ------------------------------ mutators ------------------------------ *)

\* Fault variant: the assignment is lost.
update_semi_major_axis_a_lost(bs, self, update_value) == bs

\* Fault variant: the spin frequency is overwritten as well.
update_semi_major_axis_a_and_omega(bs, self, update_value) ==
    [bs EXCEPT ![self].a = Ref(update_value), ![self].omega = update_value]

update_semi_major_axis_a(bs, self, update_value) ==
    [bs EXCEPT ![self].a = Ref(update_value)]

update_spin_frequency_omega(bs, self, update_value) ==
    [bs EXCEPT ![self].omega = update_value]

(* ------------------------- formulas on two bodies --------------------- *)

\* mu = G * (m_1 + m_2), returned as the coefficient of G.
get_standard_grav_parameter(bs, hosting_body, hosted_body, check_direct_orbits) ==
    LET chk == IF check_direct_orbits
               THEN check_if_direct_orbits(bs, hosting_body, bs[hosted_body].hn)
               ELSE Return(None)
    IN IF chk.status = "raise" THEN chk
       ELSE IF hosting_body = None THEN Raise("AttributeError")
       ELSE Return(<<bs[hosting_body[1]].mass + bs[hosted_body].mass>>)

\* n = mu^(1/2) * a^(-3/2), returned as <<p, q>> with n^2 = G * p / q.
keplers_law_n_from_a_simple(a, mu) == <<mu, a * a * a>>

keplers_law_n_from_a(bs, hosting_body, hosted_body) ==
    LET chk == check_if_direct_orbits(bs, hosting_body, bs[hosted_body].hn)
        mu == get_standard_grav_parameter(bs, hosting_body, hosted_body, FALSE)
    IN IF chk.status = "raise" THEN chk
       ELSE IF mu.status = "raise" THEN mu
       ELSE IF bs[hosted_body].a = None THEN Raise("TypeError")
       ELSE Return(keplers_law_n_from_a_simple(bs[hosted_body].a[1], mu.value[1]))

(* -------------------------- derived properties ------------------------ *)

n(bs, self) == keplers_law_n_from_a(bs, bs[self].hosting_body, self)

mu(bs, self) == get_standard_grav_parameter(bs, bs[self].hosting_body, self, FALSE)

\* r = (3 * mass / rho / (4 * pi))^(1/3), returned as <<p, q>> with r^3 = p / (q * pi).
R(bs, self) == Return(<<3 * bs[self].mass, 4 * bs[self].rho>>)

\* I = 2/5 * mass * R^2, returned as <<p, q, r, s>> with I = p/q * (r / (s * pi))^(2/3).
I(bs, self) ==
    LET r == R(bs, self).value
    IN Return(<<2 * bs[self].mass, 5, r[1], r[2]>>)

(* ------------------------- formulas on the chain ---------------------- *)

\* r_h = j.a * (j.mass / (3 * i.mass))^(1/3), returned as <<p, q>> with r_h^3 = p / q.
get_hill_radius_relevant_to_body(bs, hosted_body) ==
    IF bs[hosted_body].hn <= 2 THEN Warned(Raise("ValueError@113"))
    ELSE LET k == hosted_body
             j == bs[k].hosting_body
         IN IF j = None THEN Raise("AttributeError")
            ELSE LET i == bs[j[1]].hosting_body
                 IN IF i = None THEN Raise("AttributeError")
                    ELSE IF bs[j[1]].a = None THEN Raise("TypeError")
                    ELSE LET a == bs[j[1]].a[1]
                         IN Return(<<a * a * a * bs[j[1]].mass, 3 * bs[i[1]].mass>>)

\* f * v for a fraction f = <<num, den>> and v given by its cube <<p, q>>.
Times(f, v) == <<f[1] * f[1] * f[1] * v[1], f[2] * f[2] * f[2] * v[2]>>

\* Fault variant: the fractions of moon and submoon exchanged.
get_critical_semi_major_axis_swapped(bs, hosted_body) ==
    IF bs[hosted_body].hn \notin {3, 4} THEN Warned(Raise("ValueError@148"))
    ELSE LET f == IF bs[hosted_body].hn = 4 THEN <<4, 10>> ELSE <<33, 100>>
             r_h == get_hill_radius_relevant_to_body(bs, hosted_body)
         IN IF r_h.status = "raise" THEN r_h
            ELSE Return(Times(f, r_h.value))

\* a_crit = f * r_h with f = 0.4 (moon) or 0.33 (submoon).
get_critical_semi_major_axis(bs, hosted_body) ==
    IF bs[hosted_body].hn \notin {3, 4} THEN Warned(Raise("ValueError@148"))
    ELSE LET f == IF bs[hosted_body].hn = 3 THEN <<4, 10>> ELSE <<33, 100>>
             r_h == get_hill_radius_relevant_to_body(bs, hosted_body)
         IN IF r_h.status = "raise" THEN r_h
            ELSE Return(Times(f, r_h.value))

\* a_l = j.R * (3 * i.mass / j.mass)^(1/3), returned as <<p, q>> with a_l^3 = p / (q * pi).
get_roche_limit(bs, hosted_body) ==
    LET j == hosted_body
        i == bs[j].hosting_body
        r == R(bs, j).value
    IN IF i = None THEN Raise("AttributeError")
       ELSE Return(<<r[1] * 3 * bs[i[1]].mass, r[2] * bs[j].mass>>)

\* T = 2/13 * a_c^(13/2) * (1 - (a_0/a_c)^(13/2)) / (3 * k/Q * (G/m_i)^(1/2) * R_i^5 * m_j),
\* returned as the tuple of the numbers it is computed from.
analytical_lifetime_one_tide(bs, a_0, a_c, hosted_body) ==
    LET j == hosted_body
        i == bs[j].hosting_body
    IN IF i = None THEN Raise("AttributeError")
       ELSE LET r == R(bs, i[1]).value
            IN Return(<<a_c, a_0, bs[i[1]].k, bs[i[1]].Q, bs[i[1]].mass,
                        r[1], r[2], bs[j].mass>>)

\* 3 * R_i^5 * mu_j^(1/2) * k_i * m_j / (Q_i * m_i), returned as the tuple of the
\* numbers it is computed from.
get_a_derivative_factors_experimental(bs, hosted_body) ==
    LET j == hosted_body
        i == bs[j].hosting_body
    IN IF i = None THEN Raise("AttributeError")
       ELSE LET r == R(bs, i[1]).value
                m == mu(bs, j)
            IN IF m.status = "raise" THEN m
               ELSE Return(<<r[1], r[2], m.value[1], bs[i[1]].k, bs[j].mass,
                             bs[i[1]].Q, bs[i[1]].mass>>)

(* -------------------------- turn_seconds_to_years --------------------- *)

\* np.round to the nearest integer, halves to the even neighbour (num >= 0, den > 0).
RoundHalfEven(num, den) ==
    LET q == num \div den
        r == num % den
    IN IF 2 * r < den THEN q
       ELSE IF 2 * r > den THEN q + 1
       ELSE IF q % 2 = 0 THEN q ELSE q + 1

\* `seconds` is counted in hundredths of conversion_factor = 3600 * 24 * 365 seconds
\* and the result in hundredths of the returned number, which np.round(., 2) keeps.
\* The last branch warns and falls off the end of the function: Python returns None.
turn_seconds_to_years(seconds, keyword) ==
    LET seconds_in_years == seconds
    IN IF keyword = "Vanilla" THEN Return(<<RoundHalfEven(seconds_in_years, 1)>>)
       ELSE IF keyword = "Millions"
       THEN Return(<<RoundHalfEven(seconds_in_years, 1000000)>>)
       ELSE IF keyword = "Billions"
       THEN Return(<<RoundHalfEven(seconds_in_years, 1000000000)>>)
       ELSE Warned(Return(None))

(* ------------------------------- actions ------------------------------ *)

Hosts(bs) == {None} \cup {Ref(i) : i \in 1 .. Len(bs)}

\* One constructor call with any hierarchy number, any existing body (or None)
\* as host and any semi-major axis; None is handed over for a star only, the
\* semi-major axis of every other body being a number.
Construct(limit) ==
    /\ Len(bodies) < limit
    /\ \E hierarchy_number \in HnArgs, hosting_body \in Hosts(bodies),
          semi_major_axis \in {None} \cup {Ref(v) : v \in ConstructorAxes} :
         /\ hierarchy_number # 1 => semi_major_axis # None
         /\ LET res == CelestialBody_init(bodies, MassArg(hierarchy_number), 1,
                          semi_major_axis, 0, 1, 1, IndexArg(hierarchy_number),
                          NameArg(hierarchy_number), hierarchy_number, hosting_body)
            IN /\ bodies' = IF res.status = "return"
                            THEN Append(bodies, res.value[1]) ELSE bodies
               /\ written' = IF res.status = "return"
                             THEN Append(written,
                                    IF hierarchy_number = 1 THEN None
                                    ELSE semi_major_axis)
                             ELSE written
               /\ outcome' = Outcome("CelestialBody",
                                IF res.status = "return" THEN Len(bodies) + 1 ELSE 0,
                                <<hierarchy_number, hosting_body>>,
                                IF res.status = "return" THEN Return(None) ELSE res)

\* check_if_direct_orbits(hosting, hosted) called on two constructed bodies.
CheckDirectOrbits ==
    \E hosting \in 1 .. Len(bodies), hosted \in 1 .. Len(bodies) :
       /\ outcome' = Outcome("check_if_direct_orbits", hosted, <<hosting>>,
                        check_if_direct_orbits(bodies, Ref(hosting), bodies[hosted].hn))
       /\ UNCHANGED <<bodies, written>>

UpdateA ==
    \E self \in 1 .. Len(bodies), update_value \in Axes :
       /\ bodies' = update_semi_major_axis_a(bodies, self, update_value)
       /\ written' = [written EXCEPT ![self] = Ref(update_value)]
       /\ outcome' = Outcome("update_semi_major_axis_a", self, <<update_value>>,
                        Return(None))

UpdateOmega ==
    \E self \in 1 .. Len(bodies), update_value \in Omegas :
       /\ bodies' = update_spin_frequency_omega(bodies, self, update_value)
       /\ outcome' = Outcome("update_spin_frequency_omega", self, <<update_value>>,
                        Return(None))
       /\ UNCHANGED written

\* A read: evaluating a formula on a body and looking at what it ends in.
Read(op, self, args, res) ==
    /\ outcome' = Outcome(op, self, args, res)
    /\ UNCHANGED <<bodies, written>>

ReadN == \E self \in 1 .. Len(bodies) : Read("n", self, <<>>, n(bodies, self))

ReadMu == \E self \in 1 .. Len(bodies) : Read("mu", self, <<>>, mu(bodies, self))

ReadR == \E self \in 1 .. Len(bodies) : Read("R", self, <<>>, R(bodies, self))

ReadI == \E self \in 1 .. Len(bodies) : Read("I", self, <<>>, I(bodies, self))

ReadHill ==
    \E self \in 1 .. Len(bodies) :
       Read("get_hill_radius_relevant_to_body", self, <<>>,
            get_hill_radius_relevant_to_body(bodies, self))

ReadCritical ==
    \E self \in 1 .. Len(bodies) :
       Read("get_critical_semi_major_axis", self, <<>>,
            get_critical_semi_major_axis(bodies, self))

ReadRoche ==
    \E self \in 1 .. Len(bodies) :
       Read("get_roche_limit", self, <<>>, get_roche_limit(bodies, self))

ReadLifetime ==
    \E self \in 1 .. Len(bodies), a_0 \in Axes, a_c \in Axes :
       Read("analytical_lifetime_one_tide", self, <<a_0, a_c>>,
            analytical_lifetime_one_tide(bodies, a_0, a_c, self))

ReadFactors ==
    \E self \in 1 .. Len(bodies) :
       Read("get_a_derivative_factors_experimental", self, <<>>,
            get_a_derivative_factors_experimental(bodies, self))

\* The keyword argument may be left out (None here): the default is "Normal".
KeywordOrDefault(given) == IF given = None THEN "Normal" ELSE given[1]
Keywords == {"Vanilla", "Millions", "Billions", "Normal", "vanilla"}
SecondsArgs == {500, 1500000, 2000000000}

Convert ==
    \E seconds \in SecondsArgs, given \in {None} \cup {Ref(kw) : kw \in Keywords} :
       /\ outcome' = Outcome("turn_seconds_to_years", 0, <<seconds, given>>,
                        turn_seconds_to_years(seconds, KeywordOrDefault(given)))
       /\ UNCHANGED <<bodies, written>>

Init ==
    /\ bodies = <<>>
    /\ written = <<>>
    /\ outcome = Outcome("none", 0, <<>>, Return(None))

\* Construction and the formulas that read the chain, on up to MaxChain bodies.
NextBuild ==
    \/ Construct(MaxChain)
    \/ CheckDirectOrbits
    \/ ReadHill
    \/ ReadCritical
    \/ ReadMu

SpecBuild == Init /\ [][NextBuild]_vars

\* Sequences of constructor calls alone, on up to MaxChain bodies.
NextConstruct == Construct(MaxChain)

SpecConstruct == Init /\ [][NextConstruct]_vars

\* Construction, semi-major-axis updates and the formulas that read the axis.
NextAxis ==
    \/ Construct(MaxBodies)
    \/ UpdateA
    \/ ReadN
    \/ ReadHill

SpecAxis == Init /\ [][NextAxis]_vars

\* Every operation of the module.
Next ==
    \/ Construct(MaxFrameBodies)
    \/ UpdateA
    \/ UpdateOmega
    \/ CheckDirectOrbits
    \/ ReadN
    \/ ReadMu
    \/ ReadR
    \/ ReadI
    \/ ReadHill
    \/ ReadCritical
    \/ ReadRoche
    \/ ReadLifetime
    \/ ReadFactors
    \/ Convert

Spec == Init /\ [][Next]_vars

(* ------------------------------- claims ------------------------------- *)

BodyIds == 1 .. Len(bodies)
Hn(b) == bodies[b].hn
IsRead(op) ==
    op \in {"check_if_direct_orbits", "n", "mu", "R", "I",
            "get_hill_radius_relevant_to_body", "get_critical_semi_major_axis",
            "get_roche_limit", "analytical_lifetime_one_tide",
            "get_a_derivative_factors_experimental", "turn_seconds_to_years"}

\* Number of bodies visited when following hosting_body from ref; -1 when the
\* walk is still going after `fuel` bodies (more bodies than exist: a cycle).
RECURSIVE ChainVisits(_, _, _)
ChainVisits(bs, ref, fuel) ==
    IF ref = None THEN 0
    ELSE IF fuel = 0 THEN -1
    ELSE LET rest == ChainVisits(bs, bs[ref[1]].hosting_body, fuel - 1)
         IN IF rest = -1 THEN -1 ELSE 1 + rest

\* C1: every constructed body with hierarchy number other than 1 has a hosting
\* body whose hierarchy number is its own minus 1, and a constructor call whose
\* host is not one level up raises and yields no body.
C1_HostOneLevelUp ==
    /\ \A b \in BodyIds :
          Hn(b) # 1 => /\ bodies[b].hosting_body # None
                       /\ Hn(bodies[b].hosting_body[1]) = Hn(b) - 1
    /\ (/\ outcome.op = "CelestialBody"
        /\ outcome.args[1] # 1
        /\ \/ outcome.args[2] = None
           \/ Hn(outcome.args[2][1]) # outcome.args[1] - 1)
       => outcome.status = "raise" /\ outcome.target = 0

\* C2: check_if_direct_orbits(hosting, hosted) on bodies of levels p and c returns
\* if and only if c # 1 and |c - p| = 1, and raises in every other case.
C2_DirectOrbitIff ==
    outcome.op = "check_if_direct_orbits" =>
       LET c == Hn(outcome.target)
           p == Hn(outcome.args[1])
       IN /\ outcome.status = "return" <=> (c # 1 /\ (c - p = 1 \/ p - c = 1))
          /\ outcome.status # "return" => outcome.status = "raise"

C2_Witness ==
    /\ outcome.op = "check_if_direct_orbits"
    /\ outcome.status = "return"
    /\ Hn(outcome.args[1]) = Hn(outcome.target) + 1

\* C3: every constructed body has a hierarchy number in {1, 2, 3, 4}.
C3_HierarchyInRange == \A b \in BodyIds : Hn(b) \in 1 .. 4

\* C4: following hosting_body from any body never runs into a cycle and visits at
\* most 4 bodies, the body itself included.
C4_ChainAtMostFour ==
    \A b \in BodyIds :
       LET visits == ChainVisits(bodies, Ref(b), Len(bodies))
       IN visits # -1 /\ visits <= 4

\* C5: in every reachable state a body with hierarchy number 1 has no hosting
\* body and no semi-major axis.
C5_StarHasNoHostNoAxis ==
    \A b \in BodyIds :
       Hn(b) = 1 => bodies[b].hosting_body = None /\ bodies[b].a = None

\* C6: update_semi_major_axis_a changes only the a of the body it is called on,
\* update_spin_frequency_omega only that body's omega, and no evaluation of a
\* formula or derived property changes any field of any body.
C6_Frame ==
    [][/\ outcome'.op = "update_semi_major_axis_a" =>
            /\ Len(bodies') = Len(bodies)
            /\ \A b \in BodyIds :
                  /\ b # outcome'.target => bodies'[b] = bodies[b]
                  /\ [bodies'[b] EXCEPT !.a = bodies[b].a] = bodies[b]
       /\ outcome'.op = "update_spin_frequency_omega" =>
            /\ Len(bodies') = Len(bodies)
            /\ \A b \in BodyIds :
                  /\ b # outcome'.target => bodies'[b] = bodies[b]
                  /\ [bodies'[b] EXCEPT !.omega = bodies[b].omega] = bodies[b]
       /\ IsRead(outcome'.op) => bodies' = bodies]_vars

C6_Witness ==
    /\ outcome.op = "update_semi_major_axis_a"
    /\ Len(bodies) >= 2
    /\ bodies[outcome.target].a = Ref(2)
    /\ bodies[outcome.target].omega = 1

\* C7: get_hill_radius_relevant_to_body and get_critical_semi_major_axis raise for
\* a body of level 1 or 2 and return for a body of level 3 or 4, the critical axis
\* being 0.4 (level 3) or 0.33 (level 4) times the Hill radius (as cubes:
\* 64/1000 and 35937/1000000).
C7_AncestryGating ==
    LET lvl == Hn(outcome.target)
        r_h == get_hill_radius_relevant_to_body(bodies, outcome.target)
    IN /\ outcome.op = "get_hill_radius_relevant_to_body" =>
            /\ lvl \in {1, 2} => outcome.status = "raise"
            /\ lvl \in {3, 4} => outcome.status = "return"
       /\ outcome.op = "get_critical_semi_major_axis" =>
            /\ lvl \in {1, 2} => outcome.status = "raise"
            /\ lvl \in {3, 4} => outcome.status = "return" /\ r_h.status = "return"
            /\ lvl = 3 => outcome.value = <<64 * r_h.value[1], 1000 * r_h.value[2]>>
            /\ lvl = 4 => outcome.value = <<35937 * r_h.value[1], 1000000 * r_h.value[2]>>

C7_Witness ==
    /\ outcome.op = "get_critical_semi_major_axis"
    /\ Hn(outcome.target) = 4
    /\ outcome.status = "return"

\* C8: turn_seconds_to_years returns a value for the keywords "Vanilla", "Millions"
\* and "Billions" and ends in an error for every other keyword, the default of an
\* omitted keyword included.
C8_UnknownUnitFails ==
    outcome.op = "turn_seconds_to_years" =>
       LET keyword == IF outcome.args[2] = None THEN "Normal" ELSE outcome.args[2][1]
       IN IF keyword \in {"Vanilla", "Millions", "Billions"}
          THEN outcome.status = "return" /\ outcome.value # None
          ELSE outcome.status = "raise"

\* C9: a read of n uses the most recently written semi-major axis of the body, and
\* a read of the Hill radius relevant to a body uses the most recently written
\* semi-major axis of that body's host.
C9_ReadsUseLatestAxis ==
    /\ (outcome.op = "n" /\ outcome.status = "return") =>
          LET self == outcome.target
              host == bodies[self].hosting_body[1]
          IN /\ written[self] # None
             /\ outcome.value =
                   keplers_law_n_from_a_simple(written[self][1],
                                               bodies[host].mass + bodies[self].mass)
    /\ (outcome.op = "get_hill_radius_relevant_to_body" /\ outcome.status = "return") =>
          LET j == bodies[outcome.target].hosting_body[1]
              i == bodies[j].hosting_body[1]
          IN /\ written[j] # None
             /\ outcome.value =
                   <<written[j][1] * written[j][1] * written[j][1] * bodies[j].mass,
                     3 * bodies[i].mass>>

C9_Witness ==
    /\ outcome.op = "n"
    /\ outcome.status = "return"
    /\ written[outcome.target] = Ref(2)
    /\ outcome.value[2] = 8

\* C10: reading n of a body with hierarchy number 1 raises the ValueError that
\* check_if_direct_orbits raises for a hosted star in every reachable state, also after
\* update_semi_major_axis_a was called on that body.
C10_StarHasNoOrbitalFrequency ==
    (outcome.op = "n" /\ Hn(outcome.target) = 1) =>
       outcome.status = "raise" /\ outcome.value = <<"ValueError@24">>

C10_Witness ==
    /\ outcome.op = "n"
    /\ Hn(outcome.target) = 1
    /\ bodies[outcome.target].a # None
    /\ outcome.status = "raise"

\* C11: for every constructed body with hierarchy number other than 1,
\* check_if_direct_orbits(body.hosting_body, body) returns, so that
\* get_standard_grav_parameter gives the same outcome with and without
\* check_direct_orbits, G * (host mass + body mass), which is what mu returns.
C11_SkippedCheckIsSound ==
    /\ \A b \in BodyIds :
          Hn(b) # 1 =>
             LET host == bodies[b].hosting_body
                 unchecked == get_standard_grav_parameter(bodies, host, b, FALSE)
                 checked == get_standard_grav_parameter(bodies, host, b, TRUE)
             IN /\ check_if_direct_orbits(bodies, host, Hn(b)).status = "return"
                /\ checked.status = "return"
                /\ unchecked = checked
                /\ checked.value = <<bodies[host[1]].mass + bodies[b].mass>>
    /\ (outcome.op = "mu" /\ Hn(outcome.target) # 1) =>
          LET b == outcome.target
              checked == get_standard_grav_parameter(bodies, bodies[b].hosting_body, b, TRUE)
          IN outcome.status = checked.status /\ outcome.value = checked.value

C11_Witness ==
    /\ outcome.op = "mu"
    /\ outcome.status = "return"
    /\ Hn(outcome.target) = 2
    /\ Hn(bodies[outcome.target].hosting_body[1]) = 3
    /\ outcome.value = <<MassArg(2) + MassArg(3)>>

\* The body at which following hosting_body from ref stops (the one with no
\* hosting body), as a reference; None when the walk is still going after `fuel`
\* bodies.
RECURSIVE ChainEnd(_, _, _)
ChainEnd(bs, ref, fuel) ==
    IF bs[ref[1]].hosting_body = None THEN ref
    ELSE IF fuel = 0 THEN None
    ELSE ChainEnd(bs, bs[ref[1]].hosting_body, fuel - 1)

\* C12: after every step, following hosting_body from any constructed body ends,
\* within as many steps as there are bodies, at a body with hierarchy number 1 and
\* no hosting body; no body with another hierarchy number lacks a hosting body;
\* and a constructor call that raises adds no body and changes no existing body.
C12_ChainEndsAtStar ==
    [][/\ \A b \in 1 .. Len(bodies') :
             /\ bodies'[b].hn # 1 => bodies'[b].hosting_body # None
             /\ LET end == ChainEnd(bodies', Ref(b), Len(bodies'))
                IN /\ end # None
                   /\ bodies'[end[1]].hn = 1
                   /\ bodies'[end[1]].hosting_body = None
       /\ (outcome'.op = "CelestialBody" /\ outcome'.status = "raise") =>
             /\ bodies' = bodies
             /\ outcome'.target = 0
       /\ (outcome'.op = "CelestialBody" /\ outcome'.status = "return") =>
             /\ Len(bodies') = Len(bodies) + 1
             /\ SubSeq(bodies', 1, Len(bodies)) = bodies]_vars

C12_Witness ==
    /\ outcome.op = "CelestialBody"
    /\ outcome.status = "raise"
    /\ outcome.args = <<4, Ref(2)>>
    /\ Len(bodies) = 4
    /\ Hn(4) = 2
    /\ bodies[4].hosting_body = Ref(3)
    /\ ChainEnd(bodies, Ref(4), Len(bodies)) = Ref(1)

====
